---- MODULE Spec2Model ----
(***************************************************************************)
(* A model of model/dgnn.py, the Directed Graph Neural Network.            *)
(*                                                                         *)
(* Four state machines share this module:                                  *)
(*   SpecBlock  DGNBlock.call on concrete tensors, up to the inputs of the *)
(*              update functions H_v and H_e;                              *)
(*   SpecCall   DGNN.call on tensor shapes, through the ten                *)
(*              GraphTemporalConv layers to the final dense layer;         *)
(*   SpecTrain  AdaptiveIncidence.call and the gradient scale_gradients    *)
(*              hands back to the incidence variable;                      *)
(*   SpecUpdate the twenty incidence variables under updates of one        *)
(*              variable at a time.                                        *)
(* A tensor is a record [shape, data] with data in row-major order, as     *)
(* TensorFlow stores it; indices are 0-based as in the source.             *)
(***************************************************************************)
EXTENDS Integers, Sequences, FiniteSets, TLC

VARIABLES
    \* DGNBlock.call
    fv_in, fe_in,           \* the arguments fv and fe as passed
    source_A, target_A,     \* the values of the block's incidence variables
    fv, fe,                 \* the locals fv and fe, rebound as the call proceeds
    fv_inp, fe_inp,         \* the inputs of H_v and H_e
    pc, status,
    \* DGNN.call, on shapes
    arg_fv, arg_fe,         \* the shapes of the arguments fv and fe
    num_classes,            \* the argument of DGNN.__init__
    graph_shape,            \* the shape of the graph's source_M and target_M
    x_fv, x_fe,             \* the shapes of the locals fv and fe
    layer,                  \* the index into GTC_layers, from 1
    tc,                     \* the last call of TemporalConv: its inputs and outputs
    out,                    \* the shape of the returned tensor
    cpc, cstatus,
    \* the incidence variables and the gradient tape
    heap,                   \* the value of every array and tf.Variable, by identity
    incidence,              \* per block, the variables its source_A and target_A hold
    tape,                   \* the recorded call of scale_gradients
    upstream,               \* the gradient dy handed to custom_grad
    grad,                   \* the gradient delivered to the variable
    steps,                  \* the number of completed updates
    lambdas,                \* the incidence_lambda of every forward pass so far
    tpc, tstatus

blockVars == <<fv_in, fe_in, source_A, target_A, fv, fe, fv_inp, fe_inp, pc, status>>
callVars == <<arg_fv, arg_fe, num_classes, graph_shape, x_fv, x_fe, layer, tc, out, cpc, cstatus>>
trainVars == <<heap, incidence, tape, upstream, grad, steps, lambdas, tpc, tstatus>>
vars == <<blockVars, callVars, trainVars>>

(***************************************************************************)
(* Bounds of the model.                                                    *)
(***************************************************************************)
MaxBatch == 2
MaxT == 3
MaxPeople == 2
MaxN == 2
MaxC == 2
MaxClasses == 2
MaxSteps == 2
LambdaDen == 2

(***************************************************************************)
(* Tensor algebra: the TensorFlow operations dgnn.py calls.                *)
(***************************************************************************)
RECURSIVE Prod(_)
Prod(s) == IF s = <<>> THEN 1 ELSE Head(s) * Prod(Tail(s))

RECURSIVE Ravel(_, _)
Ravel(idx, shape) ==
    IF idx = <<>> THEN 0
    ELSE Head(idx) * Prod(Tail(shape)) + Ravel(Tail(idx), Tail(shape))

RECURSIVE Unravel(_, _)
Unravel(i, shape) ==
    IF shape = <<>> THEN <<>>
    ELSE <<i \div Prod(Tail(shape))>> \o Unravel(i % Prod(Tail(shape)), Tail(shape))

At(x, idx) == x.data[Ravel(idx, x.shape) + 1]

NoTensor == [shape |-> <<>>, data |-> <<>>]

RECURSIVE SeqSum(_)
SeqSum(s) == IF s = <<>> THEN 0 ELSE Head(s) + SeqSum(Tail(s))

\* tf.transpose(x, perm) on shapes: output axis k is input axis perm[k].
TransposeShape(shape, perm) == [k \in 1..Len(perm) |-> shape[perm[k] + 1]]

\* The input index an output index of tf.transpose reads.
TransposeSource(idx, perm) ==
    [a \in 1..Len(perm) |-> idx[CHOOSE k \in 1..Len(perm) : perm[k] = a - 1]]

tf_transpose(x, perm) ==
    LET s == TransposeShape(x.shape, perm)
    IN  [shape |-> s,
         data |-> [i \in 1..Prod(s) |-> At(x, TransposeSource(Unravel(i - 1, s), perm))]]

\* tf.reshape: one dimension of the target may be -1 and is inferred.
RECURSIVE KnownProd(_)
KnownProd(target) ==
    IF target = <<>> THEN 1
    ELSE (IF Head(target) = -1 THEN 1 ELSE Head(target)) * KnownProd(Tail(target))

ReshapeOk(shape, target) ==
    /\ Cardinality({k \in 1..Len(target) : target[k] = -1}) <= 1
    /\ KnownProd(target) > 0
    /\ Prod(shape) % KnownProd(target) = 0
    /\ (\A k \in 1..Len(target) : target[k] # -1) => KnownProd(target) = Prod(shape)

ReshapeShape(shape, target) ==
    [k \in 1..Len(target) |->
        IF target[k] = -1 THEN Prod(shape) \div KnownProd(target) ELSE target[k]]

tf_reshape(x, target) == [shape |-> ReshapeShape(x.shape, target), data |-> x.data]

\* tf.einsum('nce,ev->ncv', x, w): the label e names the last axis of x and the
\* first axis of w, which must agree.
EinsumOk(xs, ws) == Len(xs) = 3 /\ Len(ws) = 2 /\ xs[3] = ws[1]

EinsumShape(xs, ws) == <<xs[1], xs[2], ws[2]>>

tf_einsum(x, w) ==
    LET s == EinsumShape(x.shape, w.shape)
    IN  [shape |-> s,
         data |-> [i \in 1..Prod(s) |->
            LET idx == Unravel(i - 1, s)
            IN  SeqSum([e \in 1..x.shape[3] |->
                    At(x, <<idx[1], idx[2], e - 1>>) * At(w, <<e - 1, idx[3]>>)])]]

\* tf.stack([a, b, c], axis=1): the three operands must have one shape.
StackOk(as, bs, cs) == as = bs /\ bs = cs

StackShape(as) == <<as[1], 3>> \o Tail(as)

tf_stack(a, b, c) ==
    LET s == StackShape(a.shape)
    IN  [shape |-> s,
         data |-> [i \in 1..Prod(s) |->
            LET idx == Unravel(i - 1, s)
                rest == <<idx[1]>> \o Tail(Tail(idx))
            IN  CASE idx[2] = 0 -> At(a, rest)
                  [] idx[2] = 1 -> At(b, rest)
                  [] OTHER -> At(c, rest)]]


(***************************************************************************)
(* The state of each machine while another one runs.                       *)
(***************************************************************************)
BlockIdle ==
    /\ fv_in = NoTensor /\ fe_in = NoTensor
    /\ source_A = NoTensor /\ target_A = NoTensor
    /\ fv = NoTensor /\ fe = NoTensor
    /\ fv_inp = NoTensor /\ fe_inp = NoTensor
    /\ pc = "idle" /\ status = "ok"

NoCall == [fv_in |-> <<>>, fe_in |-> <<>>, fv_out |-> <<>>, fe_out |-> <<>>,
           filters |-> 0, kernel_size |-> 0, stride |-> 0]

CallIdle ==
    /\ arg_fv = <<>> /\ arg_fe = <<>> /\ num_classes = 0 /\ graph_shape = <<>>
    /\ x_fv = <<>> /\ x_fe = <<>> /\ layer = 0 /\ tc = NoCall /\ out = <<>>
    /\ cpc = "idle" /\ cstatus = "ok"

NoTape == [block |-> 0, side |-> "none", lambda |-> 0, y |-> NoTensor]

TrainIdle ==
    /\ heap = <<>> /\ incidence = <<>> /\ tape = NoTape
    /\ upstream = NoTensor /\ grad = NoTensor /\ steps = 0 /\ lambdas = {}
    /\ tpc = "idle" /\ tstatus = "ok"

(***************************************************************************)
(* DGNBlock.call, lines 79-113, on concrete tensors.                       *)
(***************************************************************************)
\* The incidence matrix of shape (nv, ne) of a directed graph whose edge e
\* is attached to vertex ends[e + 1]: rows are vertices, columns are edges.
IncidenceMatrix(nv, ne, ends) ==
    [shape |-> <<nv, ne>>,
     data |-> [i \in 1..(nv * ne) |->
        IF ends[((i - 1) % ne) + 1] = (i - 1) \div ne THEN 1 ELSE 0]]

\* Input features with every element different from every other.
VertexData(shape) == [shape |-> shape, data |-> [i \in 1..Prod(shape) |-> i]]
EdgeData(shape) == [shape |-> shape, data |-> [i \in 1..Prod(shape) |-> -i]]

\* Lines 80-84: the dimensions read off the arguments.
BatchSize == fv_in.shape[1]
T == fv_in.shape[2]
Nv == fv_in.shape[3]
Ne == fe_in.shape[3]
C == fv_in.shape[4]

InitBlock ==
    \E b \in 1..MaxBatch, t \in 1..MaxT, nv \in 1..MaxN, ne \in 1..MaxN, c \in 1..MaxC :
    \E src \in [1..ne -> 0..(nv - 1)], tgt \in [1..ne -> 0..(nv - 1)] :
        /\ fv_in = VertexData(<<b, t, nv, c>>)
        /\ fe_in = EdgeData(<<b, t, ne, c>>)
        /\ source_A = IncidenceMatrix(nv, ne, src)
        /\ target_A = IncidenceMatrix(nv, ne, tgt)
        /\ fv = fv_in
        /\ fe = fe_in
        /\ fv_inp = NoTensor
        /\ fe_inp = NoTensor
        /\ pc = "permute"
        /\ status = "ok"
        /\ CallIdle
        /\ TrainIdle

\* Lines 87-88.
Perm == <<0, 3, 2, 1>>

Permute ==
    /\ pc = "permute"
    /\ fv' = tf_transpose(fv, Perm)
    /\ fe' = tf_transpose(fe, Perm)
    /\ pc' = "reshape"
    /\ UNCHANGED <<fv_in, fe_in, source_A, target_A, fv_inp, fe_inp, status>>
    /\ UNCHANGED <<callVars, trainVars>>

\* Lines 91-92.
ReshapeForMatmul ==
    /\ pc = "reshape"
    /\ IF ReshapeOk(fv.shape, <<BatchSize, -1, Nv>>) /\ ReshapeOk(fe.shape, <<BatchSize, -1, Ne>>)
       THEN /\ fv' = tf_reshape(fv, <<BatchSize, -1, Nv>>)
            /\ fe' = tf_reshape(fe, <<BatchSize, -1, Ne>>)
            /\ pc' = "vertex"
            /\ UNCHANGED status
       ELSE /\ pc' = "raised"
            /\ status' = "error"
            /\ UNCHANGED <<fv, fe>>
    /\ UNCHANGED <<fv_in, fe_in, source_A, target_A, fv_inp, fe_inp>>
    /\ UNCHANGED <<callVars, trainVars>>

\* The three tensors stacked, regrouped to 3C channels and moved channel-last:
\* lines 97-98 and 106-107, with n the number of nodes of the result.
UpdateInputOk(own, aggS, aggT, n) ==
    /\ StackOk(own.shape, aggS.shape, aggT.shape)
    /\ ReshapeOk(StackShape(own.shape), <<BatchSize, 3 * C, T, n>>)

UpdateInput(own, aggS, aggT, n) ==
    tf_transpose(tf_reshape(tf_stack(own, aggS, aggT), <<BatchSize, 3 * C, T, n>>),
                 <<0, 2, 3, 1>>)

\* Lines 95-98.
VertexUpdateInput ==
    /\ pc = "vertex"
    /\ LET As == tf_transpose(source_A, <<1, 0>>)
           At_ == tf_transpose(target_A, <<1, 0>>)
       IN  IF /\ EinsumOk(fe.shape, As.shape)
              /\ EinsumOk(fe.shape, At_.shape)
              /\ UpdateInputOk(fv, tf_einsum(fe, As), tf_einsum(fe, At_), Nv)
           THEN /\ fv_inp' = UpdateInput(fv, tf_einsum(fe, As), tf_einsum(fe, At_), Nv)
                /\ pc' = "edge"
                /\ UNCHANGED status
           ELSE /\ pc' = "raised"
                /\ status' = "error"
                /\ UNCHANGED fv_inp
    /\ UNCHANGED <<fv_in, fe_in, source_A, target_A, fv, fe, fe_inp>>
    /\ UNCHANGED <<callVars, trainVars>>

\* Lines 104-107.
EdgeUpdateInput ==
    /\ pc = "edge"
    /\ LET As == tf_transpose(source_A, <<1, 0>>)
           At_ == tf_transpose(target_A, <<1, 0>>)
       IN  IF /\ EinsumOk(fv.shape, As.shape)
              /\ EinsumOk(fv.shape, At_.shape)
              /\ UpdateInputOk(fe, tf_einsum(fv, As), tf_einsum(fv, At_), Ne)
           THEN /\ fe_inp' = UpdateInput(fe, tf_einsum(fv, As), tf_einsum(fv, At_), Ne)
                /\ pc' = "done"
                /\ UNCHANGED status
           ELSE /\ pc' = "raised"
                /\ status' = "error"
                /\ UNCHANGED fe_inp
    /\ UNCHANGED <<fv_in, fe_in, source_A, target_A, fv, fe, fv_inp>>
    /\ UNCHANGED <<callVars, trainVars>>

NextBlock ==
    \/ Permute
    \/ ReshapeForMatmul
    \/ VertexUpdateInput
    \/ EdgeUpdateInput


(***************************************************************************)
(* DGNN.__init__ and DGNN.call, lines 147-221, on shapes.                  *)
(***************************************************************************)
NumClassesDefault == 60
KernelSize == 9

\* Lines 158-167: the filters and the stride of each GraphTemporalConv.
Filters == <<64, 64, 64, 64, 128, 128, 128, 256, 256, 256>>
Strides == <<1, 1, 1, 1, 2, 1, 1, 2, 1, 1>>
NumLayers == Len(Filters)

\* tf.keras.layers.Dense on the last axis.
DenseShape(s, units) == [s EXCEPT ![Len(s)] = units]

\* The output length of a convolution axis under padding='same'.
ConvOutLenFloor(n, kernel_size, stride) == n \div stride

ConvOutLen(n, kernel_size, stride) == (n + stride - 1) \div stride

\* TemporalConv.call, lines 119-131: Conv2D(filters, [kernel_size, 1],
\* [stride, 1], padding='same'), then batch norm and activation.
TemporalConvShape(s, filters, kernel_size, stride) ==
    <<s[1], ConvOutLen(s[2], kernel_size, stride), ConvOutLen(s[3], 1, 1), filters>>

\* DGNBlock.call, lines 79-113, on shapes: ok is whether no operation raises.
DGNBlockShape(fvs, fes, As, filters) ==
    LET b == fvs[1]
        t == fvs[2]
        nv == fvs[3]
        ne == fes[3]
        c == fvs[4]
        fvT == TransposeShape(fvs, Perm)
        feT == TransposeShape(fes, Perm)
        fvR == ReshapeShape(fvT, <<b, -1, nv>>)
        feR == ReshapeShape(feT, <<b, -1, ne>>)
        AsT == TransposeShape(As, <<1, 0>>)
        feA == EinsumShape(feR, AsT)
        fvA == EinsumShape(fvR, AsT)
        okR == ReshapeOk(fvT, <<b, -1, nv>>) /\ ReshapeOk(feT, <<b, -1, ne>>)
        okV == /\ EinsumOk(feR, AsT)
               /\ StackOk(fvR, feA, feA)
               /\ ReshapeOk(StackShape(fvR), <<b, 3 * c, t, nv>>)
        okE == /\ EinsumOk(fvR, AsT)
               /\ StackOk(feR, fvA, fvA)
               /\ ReshapeOk(StackShape(feR), <<b, 3 * c, t, ne>>)
        fvI == TransposeShape(ReshapeShape(StackShape(fvR), <<b, 3 * c, t, nv>>), <<0, 2, 3, 1>>)
        feI == TransposeShape(ReshapeShape(StackShape(feR), <<b, 3 * c, t, ne>>), <<0, 2, 3, 1>>)
    IN  [ok |-> okR /\ okV /\ okE,
         fv |-> DenseShape(fvI, filters),
         fe |-> DenseShape(feI, filters)]

\* Lines 197-198.
MergeTarget(t, n, c) == <<-1, t, n, c>>

\* Lines 211-212.
UnmergeTargetMerged(b, m, out_channels) == <<b * m, 1, -1, out_channels>>

UnmergeTarget(b, m, out_channels) == <<b, m, -1, out_channels>>

\* tf.keras.layers.GlobalAveragePooling2D on (batch, rows, cols, channels).
PoolShape(s) == <<s[1], s[4]>>

\* tf.concat([a, b], axis=-1).
ConcatShape(a, b) == [a EXCEPT ![Len(a)] = a[Len(a)] + b[Len(b)]]

InitCall ==
    \E b \in 1..MaxBatch, m \in 1..MaxPeople, t \in 1..MaxT, c \in 1..MaxC :
    \E nv \in 1..MaxN, ne \in 1..MaxN, gv \in 1..MaxN, ge \in 1..MaxN :
    \E k \in (1..MaxClasses) \cup {NumClassesDefault} :
        /\ arg_fv = <<b, m, t, nv, c>>
        /\ arg_fe = <<b, m, t, ne, c>>
        /\ num_classes = k
        /\ graph_shape = <<gv, ge>>
        /\ x_fv = arg_fv
        /\ x_fe = arg_fe
        /\ layer = 1
        /\ tc = NoCall
        /\ out = <<>>
        /\ cpc = "merge"
        /\ cstatus = "ok"
        /\ BlockIdle
        /\ TrainIdle

Raise ==
    /\ cpc' = "raised"
    /\ cstatus' = "error"

\* Lines 189-198.
Merge ==
    /\ cpc = "merge"
    /\ LET tv == MergeTarget(arg_fv[3], arg_fv[4], arg_fv[5])
           te == MergeTarget(arg_fv[3], arg_fe[4], arg_fv[5])
       IN  IF ReshapeOk(x_fv, tv) /\ ReshapeOk(x_fe, te)
           THEN /\ x_fv' = ReshapeShape(x_fv, tv)
                /\ x_fe' = ReshapeShape(x_fe, te)
                /\ cpc' = "bn"
                /\ UNCHANGED cstatus
           ELSE Raise /\ UNCHANGED <<x_fv, x_fe>>
    /\ UNCHANGED <<arg_fv, arg_fe, num_classes, graph_shape, layer, tc, out>>
    /\ UNCHANGED <<blockVars, trainVars>>

\* Lines 201-202: bn_v normalises axis 1 of fv and is then applied to fe as
\* well, whose axis 1 must have the size bn_v was built with.
InputBatchNorm ==
    /\ cpc = "bn"
    /\ IF x_fe[2] = x_fv[2]
       THEN cpc' = "dgnb" /\ UNCHANGED cstatus
       ELSE Raise
    /\ UNCHANGED <<arg_fv, arg_fe, num_classes, graph_shape, x_fv, x_fe, layer, tc, out>>
    /\ UNCHANGED <<blockVars, trainVars>>

\* Line 140, for GTC_layers[layer].
GraphConv ==
    /\ cpc = "dgnb"
    /\ LET r == DGNBlockShape(x_fv, x_fe, graph_shape, Filters[layer])
       IN  IF r.ok
           THEN /\ x_fv' = r.fv
                /\ x_fe' = r.fe
                /\ cpc' = "tc"
                /\ UNCHANGED cstatus
           ELSE Raise /\ UNCHANGED <<x_fv, x_fe>>
    /\ UNCHANGED <<arg_fv, arg_fe, num_classes, graph_shape, layer, tc, out>>
    /\ UNCHANGED <<blockVars, trainVars>>

\* Lines 141-142, for GTC_layers[layer], and the loop of lines 204-205.
TemporalConvCall ==
    /\ cpc = "tc"
    /\ x_fv' = TemporalConvShape(x_fv, Filters[layer], KernelSize, Strides[layer])
    /\ x_fe' = TemporalConvShape(x_fe, Filters[layer], KernelSize, Strides[layer])
    /\ tc' = [fv_in |-> x_fv, fe_in |-> x_fe, fv_out |-> x_fv', fe_out |-> x_fe',
              filters |-> Filters[layer], kernel_size |-> KernelSize,
              stride |-> Strides[layer]]
    /\ IF layer < NumLayers
       THEN layer' = layer + 1 /\ cpc' = "dgnb"
       ELSE layer' = layer /\ cpc' = "unmerge"
    /\ UNCHANGED <<arg_fv, arg_fe, num_classes, graph_shape, out, cstatus>>
    /\ UNCHANGED <<blockVars, trainVars>>

\* Lines 208-212.
Unmerge ==
    /\ cpc = "unmerge"
    /\ LET target == UnmergeTarget(arg_fv[1], arg_fv[2], x_fv[4])
       IN  IF ReshapeOk(x_fv, target) /\ ReshapeOk(x_fe, target)
           THEN /\ x_fv' = ReshapeShape(x_fv, target)
                /\ x_fe' = ReshapeShape(x_fe, target)
                /\ cpc' = "pool"
                /\ UNCHANGED cstatus
           ELSE Raise /\ UNCHANGED <<x_fv, x_fe>>
    /\ UNCHANGED <<arg_fv, arg_fe, num_classes, graph_shape, layer, tc, out>>
    /\ UNCHANGED <<blockVars, trainVars>>

\* Lines 215-216.
Pool ==
    /\ cpc = "pool"
    /\ x_fv' = PoolShape(x_fv)
    /\ x_fe' = PoolShape(x_fe)
    /\ cpc' = "fc"
    /\ UNCHANGED <<arg_fv, arg_fe, num_classes, graph_shape, layer, tc, out, cstatus>>
    /\ UNCHANGED <<blockVars, trainVars>>

\* Lines 219-221.
ConcatDense ==
    /\ cpc = "fc"
    /\ out' = DenseShape(ConcatShape(x_fv, x_fe), num_classes)
    /\ cpc' = "done"
    /\ UNCHANGED <<arg_fv, arg_fe, num_classes, graph_shape, x_fv, x_fe, layer, tc, cstatus>>
    /\ UNCHANGED <<blockVars, trainVars>>

NextCall ==
    \/ Merge
    \/ InputBatchNorm
    \/ GraphConv
    \/ TemporalConvCall
    \/ Unmerge
    \/ Pool
    \/ ConcatDense

(***************************************************************************)
(* The incidence variables: scale_gradients and AdaptiveIncidence, lines   *)
(* 6-28, and their construction by DGNBlock.__init__ and DGNN.__init__.    *)
(* incidence_lambda is the fraction lambda / LambdaDen; variable values    *)
(* and delivered gradients are kept as numerators over LambdaDen, upstream *)
(* gradients as integers.                                                  *)
(***************************************************************************)
Sides == {"source", "target"}

\* The identities of the graph's arrays source_M and target_M.
GraphId(side) == IF side = "source" THEN 1 ELSE 2

\* Lines 23-25, reached through lines 48-49 and 158-167: every
\* AdaptiveIncidence makes a tf.Variable of its own from the initial value.
VariableIdShared(k, side) == 2 + GraphId(side)

VariableId(k, side) == 2 * k + GraphId(side)

Ids == {GraphId(side) : side \in Sides} \cup {VariableId(k, side) : k \in 1..NumLayers, side \in Sides}

Value(k, side) == heap[incidence[k][side]]

\* The graph's arrays as tensors with numerators over LambdaDen: edge e leaves
\* vertex e mod nv and enters vertex (e + 1) mod nv.
GraphMatrix(nv, ne, side) ==
    LET m == IncidenceMatrix(nv, ne,
                 [e \in 1..ne |-> IF side = "source" THEN (e - 1) % nv ELSE e % nv])
    IN  [shape |-> m.shape, data |-> [i \in 1..(nv * ne) |-> LambdaDen * m.data[i]]]

\* The side whose graph matrix is the initial value of the array or variable i.
InitialSide(i) ==
    CHOOSE side \in Sides :
        i = GraphId(side) \/ \E k \in 1..NumLayers : i = VariableId(k, side)

InitTrain ==
    \E nv \in 1..MaxN, ne \in 1..MaxN :
        /\ heap = [i \in Ids |-> GraphMatrix(nv, ne, InitialSide(i))]
        /\ incidence = [k \in 1..NumLayers |->
                          [side \in Sides |-> VariableId(k, side)]]
        /\ tape = NoTape
        /\ upstream = NoTensor
        /\ grad = NoTensor
        /\ steps = 0
        /\ lambdas = {}
        /\ tpc = "idle"
        /\ tstatus = "ok"
        /\ BlockIdle
        /\ CallIdle

\* tf.math.multiply of a tensor by a scalar.
tf_multiply(x, k) == [shape |-> x.shape, data |-> [i \in 1..Len(x.data) |-> x.data[i] * k]]

\* Line 7: scale_gradients takes two inputs.
ScaleGradientsInputs == 2

\* Lines 8-9: custom_grad returns one tensor, the flattened return value.
custom_grad(dy, incidence_lambda) == <<tf_multiply(dy, incidence_lambda)>>

\* Line 10: in the forward direction scale_gradients is the identity.
scale_gradients_forward(incidence_matrix, incidence_lambda) == incidence_matrix

\* Line 6: tf.custom_gradient hands the gradients custom_grad returns to the
\* inputs of scale_gradients, one for each, and raises when their count is not
\* the number of inputs.
GradientsAccepted(gs) == Len(gs) = ScaleGradientsInputs

\* The update of a variable by gradient descent: variable - rate * gradient.
ApplyGradient(v, g, rate) ==
    [shape |-> v.shape, data |-> [i \in 1..Len(v.data) |-> v.data[i] - rate * g.data[i]]]

ConstTensor(shape, k) == [shape |-> shape, data |-> [i \in 1..Prod(shape) |-> k]]

UnitTensor(shape) == [shape |-> shape, data |-> [i \in 1..Prod(shape) |-> IF i = 1 THEN 1 ELSE 0]]

UpstreamGradients(shape) ==
    {ConstTensor(shape, 0), ConstTensor(shape, 1), ConstTensor(shape, -1), UnitTensor(shape)}

\* Lines 27-28: AdaptiveIncidence.call of block k's source_A or target_A.
Forward(k, side, incidence_lambda) ==
    /\ tpc = "idle"
    /\ steps < MaxSteps
    /\ tape' = [block |-> k, side |-> side, lambda |-> incidence_lambda,
                y |-> scale_gradients_forward(Value(k, side), incidence_lambda)]
    /\ upstream' = NoTensor
    /\ grad' = NoTensor
    /\ lambdas' = lambdas \cup {incidence_lambda}
    /\ tpc' = "forward"
    /\ UNCHANGED <<heap, incidence, steps, tstatus>>
    /\ UNCHANGED <<blockVars, callVars>>

\* The backward pass through the recorded call with upstream gradient dy, and
\* the gradient-descent update of the variable with what it delivers.
Backward(dy) ==
    /\ tpc = "forward"
    /\ upstream' = dy
    /\ LET gs == custom_grad(dy, tape.lambda)
       IN  IF GradientsAccepted(gs)
           THEN /\ grad' = gs[1]
                /\ heap' = [heap EXCEPT ![incidence[tape.block][tape.side]] =
                                ApplyGradient(@, gs[1], 1)]
                /\ steps' = steps + 1
                /\ tpc' = "idle"
                /\ UNCHANGED tstatus
           ELSE /\ tpc' = "raised"
                /\ tstatus' = "error"
                /\ UNCHANGED <<grad, heap, steps>>
    /\ UNCHANGED <<incidence, tape, lambdas>>
    /\ UNCHANGED <<blockVars, callVars>>

\* An update applied to one incidence variable: assign_sub of delta.
AssignSub(k, side, delta) ==
    /\ tpc = "idle"
    /\ steps < MaxSteps
    /\ heap' = [heap EXCEPT ![incidence[k][side]] = ApplyGradient(@, delta, 1)]
    /\ steps' = steps + 1
    /\ UNCHANGED <<incidence, tape, upstream, grad, lambdas, tpc, tstatus>>
    /\ UNCHANGED <<blockVars, callVars>>

ForwardAny ==
    \E k \in 1..NumLayers, side \in Sides, l \in 0..LambdaDen : Forward(k, side, l)

BackwardAny ==
    \E dy \in UpstreamGradients(tape.y.shape) : Backward(dy)

AssignSubAny ==
    \E k \in 1..NumLayers, side \in Sides :
    \E delta \in {ConstTensor(heap[1].shape, 1), UnitTensor(heap[1].shape)} :
        AssignSub(k, side, delta)

NextTrain ==
    \/ ForwardAny
    \/ BackwardAny

NextUpdate == AssignSubAny

(***************************************************************************)
(* The specifications.                                                     *)
(***************************************************************************)
SpecBlock == InitBlock /\ [][NextBlock]_vars

SpecCall == InitCall /\ [][NextCall]_vars

SpecTrain == InitTrain /\ [][NextTrain]_vars

SpecUpdate == InitTrain /\ [][NextUpdate]_vars

(***************************************************************************)
(* Claims about DGNBlock.call, checked under SpecBlock.                    *)
(***************************************************************************)
Reshaped == pc \in {"vertex", "edge", "done"}

\* The aggregate over the edges e of A[v, e] * x[b, t, e, c].
AggregateEdges(A, x, b, t, v, c) ==
    SeqSum([e \in 1..A.shape[2] |-> At(A, <<v, e - 1>>) * At(x, <<b, t, e - 1, c>>)])

\* The aggregate over the vertices v of A[v, e] * x[b, t, v, c].
AggregateVertices(A, x, b, t, e, c) ==
    SeqSum([v \in 1..A.shape[1] |-> At(A, <<v - 1, e>>) * At(x, <<b, t, v - 1, c>>)])

\* C4: after the permute and the reshape to (BatchSize, C*T, N) the last axis
\* still indexes nodes: element [b, c*T + t, v] of the reshaped vertex tensor is
\* fv[b, t, v, c], and element [b, c*T + t, e] of the edge tensor is fe[b, t, e, c].
C4_ReshapeKeepsNodeAxis ==
    Reshaped =>
        /\ fv.shape = <<BatchSize, C * T, Nv>>
        /\ fe.shape = <<BatchSize, C * T, Ne>>
        /\ \A b \in 0..(BatchSize - 1), t \in 0..(T - 1), c \in 0..(C - 1) :
              /\ \A v \in 0..(Nv - 1) :
                    At(fv, <<b, c * T + t, v>>) = At(fv_in, <<b, t, v, c>>)
              /\ \A e \in 0..(Ne - 1) :
                    At(fe, <<b, c * T + t, e>>) = At(fe_in, <<b, t, e, c>>)

\* C5: the input of H_v has shape (BatchSize, T, Nv, 3C) and at (b, t, v) holds
\* the vertex's own features, then the edge features aggregated through
\* source_A, then the edge features aggregated through target_A, all of the
\* same frame t and vertex v.
C5_VertexInputGroups ==
    pc \in {"edge", "done"} =>
        /\ fv_inp.shape = <<BatchSize, T, Nv, 3 * C>>
        /\ \A b \in 0..(BatchSize - 1), t \in 0..(T - 1), v \in 0..(Nv - 1), c \in 0..(C - 1) :
              /\ At(fv_inp, <<b, t, v, c>>) = At(fv_in, <<b, t, v, c>>)
              /\ At(fv_inp, <<b, t, v, C + c>>) = AggregateEdges(source_A, fe_in, b, t, v, c)
              /\ At(fv_inp, <<b, t, v, 2 * C + c>>) = AggregateEdges(target_A, fe_in, b, t, v, c)

\* C6: the edge update is computed for every Nv and Ne, and the input of H_e has
\* shape (BatchSize, T, Ne, 3C) and at (b, t, e) holds the edge's own features,
\* then the vertex features aggregated along column e of source_A, then those
\* aggregated along column e of target_A.
C6_EdgeInputGroups ==
    pc \in {"done", "raised"} =>
        /\ status = "ok"
        /\ fe_inp.shape = <<BatchSize, T, Ne, 3 * C>>
        /\ \A b \in 0..(BatchSize - 1), t \in 0..(T - 1), e \in 0..(Ne - 1), c \in 0..(C - 1) :
              /\ At(fe_inp, <<b, t, e, c>>) = At(fe_in, <<b, t, e, c>>)
              /\ At(fe_inp, <<b, t, e, C + c>>) = AggregateVertices(source_A, fv_in, b, t, e, c)
              /\ At(fe_inp, <<b, t, e, 2 * C + c>>) = AggregateVertices(target_A, fv_in, b, t, e, c)


(***************************************************************************)
(* Claims about DGNN.call and TemporalConv.call, checked under SpecCall.   *)
(***************************************************************************)
\* C1: a forward pass that completes returns one score vector per batch sample:
\* the output has shape [BatchSize, num_classes] whatever M, T, Nv, Ne and C are.
C1_OutputShape ==
    cpc = "done" => cstatus = "ok" /\ out = <<arg_fv[1], num_classes>>

C1_Witness ==
    /\ cpc = "done"
    /\ arg_fv[1] > 1 /\ arg_fv[2] > 1 /\ arg_fv[3] > 1 /\ arg_fv[4] > 1 /\ arg_fv[5] > 1
    /\ arg_fv[1] # arg_fv[3]
    /\ out = <<arg_fv[1], num_classes>>

IsCeilDiv(n, t, stride) == n * stride >= t /\ (n - 1) * stride < t

BackwardRan == upstream # NoTensor

AllInitial ==
    \A k \in 1..NumLayers, side \in Sides : Value(k, side) = heap[GraphId(side)]

\* C2: AdaptiveIncidence.call returns the stored matrix unchanged, and the
\* gradient it delivers to the stored matrix is the upstream gradient times
\* incidence_lambda: zero for 0, the upstream gradient itself for 1.
C2_GradientScaledByLambda ==
    /\ tpc = "forward" => tape.y = Value(tape.block, tape.side)
    /\ BackwardRan =>
          /\ tstatus = "ok"
          /\ grad = tf_multiply(upstream, tape.lambda)
          /\ tape.lambda = 0 => grad = ConstTensor(upstream.shape, 0)
          /\ tape.lambda = LambdaDen => grad = tf_multiply(upstream, LambdaDen)

\* C3: with incidence_lambda = 0 in every forward pass the twenty incidence
\* matrices keep their initial values through any number of update steps, and
\* with incidence_lambda = 1 a variable receives the upstream gradient and
\* changes when that gradient is not zero.
C3_LambdaZeroDisablesLearning ==
    /\ lambdas \subseteq {0} => AllInitial
    /\ (BackwardRan /\ tape.lambda = LambdaDen) =>
          /\ tstatus = "ok"
          /\ grad = tf_multiply(upstream, LambdaDen)
          /\ upstream # ConstTensor(upstream.shape, 0) =>
                Value(tape.block, tape.side) # tape.y

\* C8: the ten blocks hold twenty distinct variables, none of them the graph's
\* own arrays, all starting at source_M and target_M, and an update of one of
\* them changes no other and leaves source_M and target_M as they were.
Holders == (1..NumLayers) \X Sides

C8_OwnVariables ==
    /\ [](/\ Cardinality({incidence[h[1]][h[2]] : h \in Holders}) = 2 * NumLayers
          /\ \A h \in Holders, side \in Sides : incidence[h[1]][h[2]] # GraphId(side)
          /\ steps = 0 => AllInitial)
    /\ [][/\ \A side \in Sides : heap'[GraphId(side)] = heap[GraphId(side)]
          /\ \A h \in Holders :
                Value(h[1], h[2])' # Value(h[1], h[2]) =>
                    \A g \in Holders \ {h} : Value(g[1], g[2])' = Value(g[1], g[2])]_vars

C8_Witness ==
    /\ steps = MaxSteps
    /\ heap[GraphId("source")] = heap[GraphId("target")]
    /\ Value(1, "source") # Value(2, "source")
    /\ Value(2, "source") # Value(2, "target")
    /\ Value(1, "target") = heap[GraphId("target")]

====
